---- MODULE Spec2Model ----
(***************************************************************************)
(* Git Gladiators: the statistics pipeline of the background service       *)
(* worker (src/background.js, the second definition of                     *)
(* fetchContributorStats, which is the one in force, and fillDiffStats)    *)
(* and the aggregation, scoring, title and ranking functions of the popup  *)
(* (src/popup.js).                                                         *)
(*                                                                         *)
(* Conventions.                                                            *)
(*  - A JavaScript object is a record; an absent property is a field that  *)
(*    is not in the record's DOMAIN.  A falsy login is the empty string.   *)
(*  - A JavaScript time value (milliseconds since the epoch) is the record *)
(*    [s |-> seconds, ms |-> 0..999], standing for 1000*s + ms: the        *)
(*    millisecond counts of real dates do not fit TLC's integers.          *)
(*  - A score is kept in tenths (the code returns Math.round(x*10)/10).    *)
(***************************************************************************)
EXTENDS Integers, Sequences, FiniteSets, TLC

VARIABLES
    token,           \* background.js:10 chrome.storage.local githubToken ("" when none is stored)
    call,            \* popup.js: the arguments and the return value of one call of a pure function
    bgPc,            \* background.js: where fetchContributorStats stands
    statsResponse,   \* background.js:180 statsResponse (status and parsed body)
    listResponse,    \* background.js:180 listResponse (null, or status and parsed body)
    contributors,    \* background.js:247 contributors (the values of contributorMap)
    jobs,            \* background.js:260 one fillDiffStats call per entry of needsDiffStats
    result,          \* background.js: the value fetchContributorStats resolves to
    currentRepo,         \* popup.js:32 ("null" for null)
    rawContributorData,  \* popup.js:33 ([isNull |-> TRUE] for null)
    currentPeriod,       \* popup.js:34
    screen,              \* popup.js:206-217 which of tokenSetup and mainScreen is displayed
    leaderboard,         \* popup.js: what leaderboardEl and the status bar show
    requests,            \* popup.js:305 the fetchStats messages that await their response
    timers,              \* popup.js:333 the pending setTimeout(fetchAndDisplayStats, 3000)
    fetchesStarted       \* the number of fetchStats messages sent so far

popupVars ==
    <<currentRepo, rawContributorData, currentPeriod, screen, leaderboard, requests, timers,
      fetchesStarted>>
vars ==
    <<token, call, bgPc, statsResponse, listResponse, contributors, jobs, result,
      currentRepo, rawContributorData, currentPeriod, screen, leaderboard, requests, timers,
      fetchesStarted>>
bgVars == <<token, bgPc, statsResponse, listResponse, contributors, jobs, result>>

----------------------------------------------------------------------------
(* Generic helpers *)

Min(a, b) == IF a <= b THEN a ELSE b

Abs(a) == IF a >= 0 THEN a ELSE 0 - a

Range(seq) == {seq[i] : i \in 1..Len(seq)}

RECURSIVE SeqsUpTo(_, _)
\* all sequences over S of length at most n
SeqsUpTo(S, n) ==
    IF n = 0 THEN {<<>>}
    ELSE LET shorter == SeqsUpTo(S, n - 1)
         IN  shorter \cup {Append(q, e) : q \in {r \in shorter : Len(r) = n - 1}, e \in S}

\* Array.prototype.reduce((sum, w) => sum + w[field], 0)
RECURSIVE SumField(_, _)
SumField(seq, field) ==
    IF seq = <<>> THEN 0 ELSE Head(seq)[field] + SumField(Tail(seq), field)

----------------------------------------------------------------------------
(* Time values *)

SecondsPerDay == 24 * 60 * 60

\* popup.js:103 weekMs = 7 * 24 * 60 * 60 * 1000, as a time value
weekMs == [s |-> 7 * SecondsPerDay, ms |-> 0]

\* t - n*u for time values t, u (u a whole number of seconds)
TimeMinus(t, n, u) == [s |-> t.s - n * u.s, ms |-> t.ms]

\* w >= t / 1000 for a whole number of seconds w and a time value t
SecondsAtLeast(w, t) == w > t.s \/ (w = t.s /\ t.ms = 0)

\* background.js:158-163.  setUTCHours(0,0,0,0) clears the time within the UTC
\* day; getUTCDay() is 0 on Sunday (1970-01-01 was a Thursday, day 4);
\* setUTCDate(getUTCDate() - getUTCDay()) steps back that many days;
\* Math.floor(getTime() / 1000) drops the milliseconds.
getWeekStartTimestampNoMidnight(date) ==
    LET d == date
        day == ((d.s \div SecondsPerDay) + 4) % 7
        d2 == [s |-> d.s - day * SecondsPerDay, ms |-> d.ms]
    IN  d2.s

getWeekStartTimestamp(date) ==
    LET d == date
        d1 == [s |-> d.s - (d.s % SecondsPerDay), ms |-> 0]
        day == ((d1.s \div SecondsPerDay) + 4) % 7
        d2 == [s |-> d1.s - day * SecondsPerDay, ms |-> d1.ms]
    IN  d2.s

\* popup.js:101-113, with Date.now() passed in as now
getPeriodCutoffMonthAsWeek(period, now) ==
    CASE period = "week" -> TimeMinus(now, 1, weekMs)
      [] period = "month" -> TimeMinus(now, 1, weekMs)
      [] OTHER -> [s |-> 0, ms |-> 0]

getPeriodCutoff(period, now) ==
    CASE period = "week" -> TimeMinus(now, 1, weekMs)
      [] period = "month" -> TimeMinus(now, 4, weekMs)
      [] OTHER -> [s |-> 0, ms |-> 0]

----------------------------------------------------------------------------
(* ScoringEngine: popup.js:7-12 and 162-179 *)

\* round(10^7 * log10(n)) for n = 1..130: Math.log10 to seven decimals
Log10Table ==
  << 0, 3010300, 4771213, 6020600, 6989700, 7781513, 8450980, 9030900, 9542425, 10000000,
     10413927, 10791812, 11139434, 11461280, 11760913, 12041200, 12304489, 12552725, 12787536, 13010300,
     13222193, 13424227, 13617278, 13802112, 13979400, 14149733, 14313638, 14471580, 14623980, 14771213,
     14913617, 15051500, 15185139, 15314789, 15440680, 15563025, 15682017, 15797836, 15910646, 16020600,
     16127839, 16232493, 16334685, 16434527, 16532125, 16627578, 16720979, 16812412, 16901961, 16989700,
     17075702, 17160033, 17242759, 17323938, 17403627, 17481880, 17558749, 17634280, 17708520, 17781513,
     17853298, 17923917, 17993405, 18061800, 18129134, 18195439, 18260748, 18325089, 18388491, 18450980,
     18512583, 18573325, 18633229, 18692317, 18750613, 18808136, 18864907, 18920946, 18976271, 19030900,
     19084850, 19138139, 19190781, 19242793, 19294189, 19344985, 19395193, 19444827, 19493900, 19542425,
     19590414, 19637878, 19684829, 19731279, 19777236, 19822712, 19867717, 19912261, 19956352, 20000000,
     20043214, 20086002, 20128372, 20170333, 20211893, 20253059, 20293838, 20334238, 20374265, 20413927,
     20453230, 20492180, 20530784, 20569049, 20606978, 20644580, 20681859, 20718820, 20755470, 20791812,
     20827854, 20863598, 20899051, 20934217, 20969100, 21003705, 21038037, 21072100, 21105897, 21139434 >>

\* Math.log10(n) in units of 10^-7
log10(n) == Log10Table[n]

\* SCORING_CONFIG, the weights in hundredths
commitWeight == 40
additionsWeight == 35
deletionsWeight == 25
linesPerCommitBaseline == 50

\* One tenth of a score point is 2 * ScoreUnit: the three weighted logarithms
\* times ten are 400, 35 and 25 times log10, here divided by 5 to stay within
\* TLC's integers.
ScoreUnit == 1000 * 1000

\* popup.js:173-176 in units of 1/(2*ScoreUnit) tenths.  avgLinesPerCommit is
\* (additions + deletions) / commits, so 0 < avg <= 2*baseline is
\* 0 < lines <= 2*baseline*commits, and 10 * balanceBonus is
\* 100 - 100 * |lines - baseline*commits| / (baseline*commits).
balanceBonusNoUpperLimit(commits, additions, deletions) ==
    LET lines == additions + deletions
        dev == Abs(lines - linesPerCommitBaseline * commits)
        perBaseline == (200 * ScoreUnit) \div linesPerCommitBaseline
    IN  IF commits > 0 /\ lines > 0
        THEN Min(200 * ScoreUnit,
                 200 * ScoreUnit
                   - (perBaseline * (dev \div commits)
                      + (perBaseline * (dev % commits)) \div commits))
        ELSE 0

balanceBonus(commits, additions, deletions) ==
    LET lines == additions + deletions
        dev == Abs(lines - linesPerCommitBaseline * commits)
        perBaseline == (200 * ScoreUnit) \div linesPerCommitBaseline
    IN  IF commits > 0 /\ lines > 0 /\ lines <= 2 * linesPerCommitBaseline * commits
        THEN Min(200 * ScoreUnit,
                 200 * ScoreUnit
                   - (perBaseline * (dev \div commits)
                      + (perBaseline * (dev % commits)) \div commits))
        ELSE 0

\* popup.js:162-179; the result is the score in tenths, Math.round being
\* floor(x + 1/2)
calculateScore(commits, additions, deletions) ==
    LET commitScore == (commitWeight \div 5) * 10 * log10(commits + 1)
        additionScore == (additionsWeight \div 5) * log10(additions + 1)
        deletionScore == (deletionsWeight \div 5) * log10(deletions + 1)
    IN  (commitScore + additionScore + deletionScore
           + balanceBonus(commits, additions, deletions) + ScoreUnit)
        \div (2 * ScoreUnit)

----------------------------------------------------------------------------
(* TitleClassifier: popup.js:184-201 *)

\* total / commits > 500 is total > 500 * commits, ratio < 20 is
\* total < 20 * commits (ratio is 0 without commits), and
\* deletions / total > 0.6 is 5 * deletions > 3 * total
assignTitleCleanerFirst(stats) ==
    LET commits == stats.commits
        additions == stats.additions
        deletions == stats.deletions
        total == additions + deletions
    IN  IF total > 0 /\ 5 * deletions > 3 * total /\ total > 100
            THEN [title |-> "The Cleaner", color |-> "#9B59B6"]
        ELSE IF commits >= 500 THEN [title |-> "Code Architect", color |-> "#FFD700"]
        ELSE IF commits > 0 /\ total > 500 * commits
            THEN [title |-> "Tsunami Coder", color |-> "#3498DB"]
        ELSE IF (IF commits > 0 THEN total < 20 * commits ELSE TRUE) /\ commits > 50
            THEN [title |-> "Rapid Fire", color |-> "#E74C3C"]
        ELSE IF additions > 50000 THEN [title |-> "Novel Writer", color |-> "#2ECC71"]
        ELSE IF commits >= 100 THEN [title |-> "Veteran", color |-> "#F39C12"]
        ELSE IF commits >= 50 THEN [title |-> "Warrior", color |-> "#E67E22"]
        ELSE IF commits >= 20 THEN [title |-> "Defender", color |-> "#1ABC9C"]
        ELSE IF commits >= 10 THEN [title |-> "Rising Star", color |-> "#27AE60"]
        ELSE IF commits >= 1 THEN [title |-> "Fresh Blood", color |-> "#95A5A6"]
        ELSE [title |-> "Inactive", color |-> "#666677"]

assignTitle(stats) ==
    LET commits == stats.commits
        additions == stats.additions
        deletions == stats.deletions
        total == additions + deletions
    IN  IF commits >= 500 THEN [title |-> "Code Architect", color |-> "#FFD700"]
        ELSE IF total > 0 /\ 5 * deletions > 3 * total /\ total > 100
            THEN [title |-> "The Cleaner", color |-> "#9B59B6"]
        ELSE IF commits > 0 /\ total > 500 * commits
            THEN [title |-> "Tsunami Coder", color |-> "#3498DB"]
        ELSE IF (IF commits > 0 THEN total < 20 * commits ELSE TRUE) /\ commits > 50
            THEN [title |-> "Rapid Fire", color |-> "#E74C3C"]
        ELSE IF additions > 50000 THEN [title |-> "Novel Writer", color |-> "#2ECC71"]
        ELSE IF commits >= 100 THEN [title |-> "Veteran", color |-> "#F39C12"]
        ELSE IF commits >= 50 THEN [title |-> "Warrior", color |-> "#E67E22"]
        ELSE IF commits >= 20 THEN [title |-> "Defender", color |-> "#1ABC9C"]
        ELSE IF commits >= 10 THEN [title |-> "Rising Star", color |-> "#27AE60"]
        ELSE IF commits >= 1 THEN [title |-> "Fresh Blood", color |-> "#95A5A6"]
        ELSE [title |-> "Inactive", color |-> "#666677"]

----------------------------------------------------------------------------
(* PeriodAggregator and Ranker: popup.js:118-157 *)

\* popup.js:149 active.sort((a, b) => b.score - a.score): Array.prototype.sort
\* is stable, so an entry goes behind every entry whose score is not lower
InsertByScoreBeforeTies(sorted, e) ==
    LET ahead == {i \in 1..Len(sorted) : sorted[i].score > e.score}
        k == IF \A i \in 1..Len(sorted) : i \in ahead THEN Len(sorted)
             ELSE (CHOOSE i \in 1..Len(sorted) :
                      i \notin ahead /\ \A j \in 1..(i - 1) : j \in ahead) - 1
    IN  SubSeq(sorted, 1, k) \o <<e>> \o SubSeq(sorted, k + 1, Len(sorted))

InsertByScore(sorted, e) ==
    LET ahead == {i \in 1..Len(sorted) : sorted[i].score >= e.score}
        k == IF \A i \in 1..Len(sorted) : i \in ahead THEN Len(sorted)
             ELSE (CHOOSE i \in 1..Len(sorted) :
                      i \notin ahead /\ \A j \in 1..(i - 1) : j \in ahead) - 1
    IN  SubSeq(sorted, 1, k) \o <<e>> \o SubSeq(sorted, k + 1, Len(sorted))

RECURSIVE SortByScore(_)
SortByScore(seq) ==
    IF seq = <<>> THEN <<>>
    ELSE InsertByScore(SortByScore(SubSeq(seq, 1, Len(seq) - 1)), seq[Len(seq)])

\* popup.js:146
IsActiveCommitsOnly(c) == c.commits > 0

IsActive(c) == c.commits > 0 \/ c.additions > 0 \/ c.deletions > 0

\* popup.js:121-143, one contributor
PeriodTotals(contributor, cutoff) ==
    LET relevantWeeks == SelectSeq(contributor.weeks, LAMBDA week : SecondsAtLeast(week.w, cutoff))
        commits == SumField(relevantWeeks, "c")
        additions == SumField(relevantWeeks, "a")
        deletions == SumField(relevantWeeks, "d")
        titleInfo == assignTitle([commits |-> commits, additions |-> additions,
                                  deletions |-> deletions])
    IN  [login |-> contributor.login, avatar |-> contributor.avatar,
         profileUrl |-> contributor.profileUrl,
         commits |-> commits, additions |-> additions, deletions |-> deletions,
         score |-> calculateScore(commits, additions, deletions),
         title |-> titleInfo.title, color |-> titleInfo.color]

\* popup.js:152-154 contributor.rank = <rank>
WithRank(e, rank) ==
    [login |-> e.login, avatar |-> e.avatar, profileUrl |-> e.profileUrl,
     commits |-> e.commits, additions |-> e.additions, deletions |-> e.deletions,
     score |-> e.score, title |-> e.title, color |-> e.color, rank |-> rank]

AssignRanksSharedOnTies(sorted) ==
    [i \in 1..Len(sorted) |->
        WithRank(sorted[i],
                 1 + Cardinality({j \in 1..Len(sorted) : sorted[j].score > sorted[i].score}))]

\* popup.js:151-154 active.forEach((contributor, index) => ...)
AssignRanks(sorted) == [i \in 1..Len(sorted) |-> WithRank(sorted[i], i)]

\* popup.js:118-157, with Date.now() passed in as now; cutoffTimestamp is the
\* cutoff divided by 1000, which SecondsAtLeast compares against
processContributors(contribs, period, now) ==
    LET cutoffTimestamp == getPeriodCutoff(period, now)
        processed == [i \in 1..Len(contribs) |-> PeriodTotals(contribs[i], cutoffTimestamp)]
        active == SelectSeq(processed, IsActive)
        sorted == SortByScore(active)
    IN  AssignRanks(sorted)

----------------------------------------------------------------------------
(* The background worker at rest, for the specifications of the pure functions *)

BackgroundIdle ==
    /\ token = ""
    /\ bgPc = "idle"
    /\ statsResponse = [status |-> 0]
    /\ listResponse = [status |-> 0]
    /\ contributors = <<>>
    /\ jobs = <<>>
    /\ result = [status |-> "none"]

Returned == "ret" \in DOMAIN call

\* popup.js:32-35: the state of the popup before init() runs
PopupClosed ==
    /\ currentRepo = "null"
    /\ rawContributorData = [isNull |-> TRUE]
    /\ currentPeriod = "all"
    /\ screen = "init"
    /\ leaderboard = [view |-> "blank"]
    /\ requests = {}
    /\ timers = 0
    /\ fetchesStarted = 0

----------------------------------------------------------------------------
(* calculateScore over a box of inputs *)

ScoreMaxCommits == 4
ScoreMaxAdditions == 104
ScoreMaxDeletions == 6

InitScore ==
    /\ call \in [fn : {"calculateScore"}, commits : 0..ScoreMaxCommits,
                 additions : 0..ScoreMaxAdditions, deletions : 0..ScoreMaxDeletions]
    /\ BackgroundIdle
    /\ PopupClosed

CallCalculateScore ==
    /\ call.fn = "calculateScore"
    /\ ~Returned
    /\ call' = [fn |-> call.fn, commits |-> call.commits, additions |-> call.additions,
                deletions |-> call.deletions,
                ret |-> calculateScore(call.commits, call.additions, call.deletions)]
    /\ UNCHANGED bgVars
    /\ UNCHANGED popupVars

NextScore == CallCalculateScore

SpecScore == InitScore /\ [][NextScore]_vars

\* C2 as stated: the score is non-decreasing in each of commits, additions and
\* deletions, the other two held fixed.
ScoreMonotoneInEachArgument ==
    (call.fn = "calculateScore" /\ Returned) =>
        /\ calculateScore(call.commits + 1, call.additions, call.deletions) >= call.ret
        /\ calculateScore(call.commits, call.additions + 1, call.deletions) >= call.ret
        /\ calculateScore(call.commits, call.additions, call.deletions + 1) >= call.ret

\* the balance bonus cannot shrink when one line is added: there is no bonus
\* before (no commits, or an average of 2*baseline or more), or the average
\* stays at or below the baseline
BonusCannotShrink(commits, lines) ==
    \/ commits = 0
    \/ lines >= 2 * linesPerCommitBaseline * commits
    \/ lines + 1 <= linesPerCommitBaseline * commits

\* C2 as amended: the score is non-decreasing in commits; it is non-decreasing
\* in additions and in deletions where the balance bonus cannot shrink.
ScoreMonotoneInCommits ==
    (call.fn = "calculateScore" /\ Returned) =>
        /\ calculateScore(call.commits + 1, call.additions, call.deletions) >= call.ret
        /\ BonusCannotShrink(call.commits, call.additions + call.deletions) =>
              /\ calculateScore(call.commits, call.additions + 1, call.deletions) >= call.ret
              /\ calculateScore(call.commits, call.additions, call.deletions + 1) >= call.ret

\* a score with the full bonus, from which more commits still raise the score
ScoreWitness ==
    /\ call.fn = "calculateScore" /\ Returned
    /\ call.commits = 1 /\ call.additions = 50 /\ call.deletions = 0
    /\ call.ret = 280

----------------------------------------------------------------------------
(* assignTitle over the values on both sides of every threshold *)

TitleCommits == {0, 1, 9, 10, 19, 20, 49, 50, 51, 99, 100, 499, 500, 501}
TitleAdditions == {0, 1, 40, 100, 1000, 26000, 50000, 50001}
TitleDeletions == {0, 1, 61, 100, 150, 1501, 60000}

InitTitle ==
    /\ call \in [fn : {"assignTitle"}, commits : TitleCommits,
                 additions : TitleAdditions, deletions : TitleDeletions]
    /\ BackgroundIdle
    /\ PopupClosed

CallAssignTitle ==
    /\ call.fn = "assignTitle"
    /\ ~Returned
    /\ call' = [fn |-> call.fn, commits |-> call.commits, additions |-> call.additions,
                deletions |-> call.deletions,
                ret |-> assignTitle([commits |-> call.commits, additions |-> call.additions,
                                     deletions |-> call.deletions])]
    /\ UNCHANGED bgVars
    /\ UNCHANGED popupVars

NextTitle == CallAssignTitle

SpecTitle == InitTitle /\ [][NextTitle]_vars

\* the closed set of (title, color) pairs, in rule order
TitlePairs ==
    << [title |-> "Code Architect", color |-> "#FFD700"],
       [title |-> "The Cleaner", color |-> "#9B59B6"],
       [title |-> "Tsunami Coder", color |-> "#3498DB"],
       [title |-> "Rapid Fire", color |-> "#E74C3C"],
       [title |-> "Novel Writer", color |-> "#2ECC71"],
       [title |-> "Veteran", color |-> "#F39C12"],
       [title |-> "Warrior", color |-> "#E67E22"],
       [title |-> "Defender", color |-> "#1ABC9C"],
       [title |-> "Rising Star", color |-> "#27AE60"],
       [title |-> "Fresh Blood", color |-> "#95A5A6"],
       [title |-> "Inactive", color |-> "#666677"] >>

\* which of the eleven rules match, with ratio = total/commits and
\* deleteRatio = deletions/total as fractions (0 when the divisor is 0)
RuleMatches(commits, additions, deletions) ==
    LET total == additions + deletions
        ratioAbove500 == commits > 0 /\ total > 500 * commits
        ratioBelow20 == commits = 0 \/ total < 20 * commits
        deleteRatioAbove60 == total > 0 /\ 10 * deletions > 6 * total
    IN  << commits >= 500,
           deleteRatioAbove60 /\ total > 100,
           ratioAbove500,
           ratioBelow20 /\ commits > 50,
           additions > 50000,
           commits >= 100,
           commits >= 50,
           commits >= 20,
           commits >= 10,
           commits >= 1,
           TRUE >>

----------------------------------------------------------------------------
(* getWeekStartTimestamp over the days around the epoch *)

WeekDaysBefore == 9
WeekDaysAfter == 16

WeekDates ==
    {[s |-> day * SecondsPerDay + sec, ms |-> ms] :
        day \in (0 - WeekDaysBefore)..WeekDaysAfter,
        sec \in {0, 1, 43200, SecondsPerDay - 1},
        ms \in {0, 1, 999}}

InitWeek ==
    /\ call \in [fn : {"getWeekStartTimestamp"}, date : WeekDates]
    /\ BackgroundIdle
    /\ PopupClosed

CallGetWeekStartTimestamp ==
    /\ call.fn = "getWeekStartTimestamp"
    /\ ~Returned
    /\ call' = [fn |-> call.fn, date |-> call.date, ret |-> getWeekStartTimestamp(call.date)]
    /\ UNCHANGED bgVars
    /\ UNCHANGED popupVars

NextWeek == CallGetWeekStartTimestamp

SpecWeek == InitWeek /\ [][NextWeek]_vars

\* 1970-01-04 00:00:00 UTC, the first Sunday of the epoch, in seconds
FirstSunday == 3 * SecondsPerDay

\* the number of the Sunday-aligned UTC week a time value lies in
WeekNumber(t) == (t.s - FirstSunday) \div (7 * SecondsPerDay)

\* C10: the key is a Sunday 00:00:00 UTC in whole seconds, at or before the
\* date and less than 7 days before it; dates of one week get one key.
WeekKeyIsSundayOnOrBefore ==
    (call.fn = "getWeekStartTimestamp" /\ Returned) =>
        LET t == call.date
            w == call.ret
        IN  /\ (w - FirstSunday) % (7 * SecondsPerDay) = 0
            /\ w <= t.s
            /\ t.s - w < 7 * SecondsPerDay
            /\ \A u \in WeekDates :
                  WeekNumber(u) = WeekNumber(t) => getWeekStartTimestamp(u) = w

\* a Saturday 23:59:59.999 before the epoch, keyed to the Sunday six days earlier
WeekWitness ==
    /\ call.fn = "getWeekStartTimestamp" /\ Returned
    /\ call.date = [s |-> (0 - 5) * SecondsPerDay - 1, ms |-> 999]
    /\ call.ret = (0 - 11) * SecondsPerDay

----------------------------------------------------------------------------
(* processContributors over small contributor lists *)

MaxProcWeeks == 3

\* Date.now(): the same second on and off a whole second
ProcNowSeconds == 40 * SecondsPerDay
ProcNow == {[s |-> ProcNowSeconds, ms |-> 0], [s |-> ProcNowSeconds, ms |-> 500]}

\* week keys: the epoch, and 28, 10, 7 and 1 days before now
ProcWeekKeys ==
    <<0, ProcNowSeconds - 28 * SecondsPerDay, ProcNowSeconds - 10 * SecondsPerDay,
      ProcNowSeconds - 7 * SecondsPerDay, ProcNowSeconds - SecondsPerDay>>

ProcCounters ==
    {[c |-> 0, a |-> 0, d |-> 0], [c |-> 1, a |-> 0, d |-> 0],
     [c |-> 2, a |-> 30, d |-> 5], [c |-> 0, a |-> 4, d |-> 0]}

ProcBucket(k, n) == [w |-> ProcWeekKeys[k], a |-> n.a, d |-> n.d, c |-> n.c]

\* week lists of at most MaxProcWeeks buckets, one per key, oldest first
RECURSIVE ProcWeekLists(_, _)
ProcWeekLists(fromKey, n) ==
    IF n = 0 THEN {<<>>}
    ELSE {<<>>} \cup
         UNION {{<<ProcBucket(k, cnt)>> \o rest :
                    cnt \in ProcCounters, rest \in ProcWeekLists(k + 1, n - 1)} :
                k \in fromKey..Len(ProcWeekKeys)}

ProcContributor(login, weeks) ==
    [login |-> login, avatar |-> "", profileUrl |-> "", weeks |-> weeks]

ProcOthers ==
    {<<>>,
     <<ProcContributor("bob", <<>>)>>,
     <<ProcContributor("bob", <<ProcBucket(5, [c |-> 2, a |-> 30, d |-> 5])>>)>>,
     <<ProcContributor("bob", <<ProcBucket(3, [c |-> 1, a |-> 0, d |-> 0]),
                                ProcBucket(5, [c |-> 0, a |-> 4, d |-> 0])>>)>>,
     <<ProcContributor("bob", <<ProcBucket(5, [c |-> 1, a |-> 0, d |-> 0])>>),
       ProcContributor("cy", <<ProcBucket(5, [c |-> 2, a |-> 30, d |-> 5])>>)>>,
     <<ProcContributor("bob", <<ProcBucket(5, [c |-> 2, a |-> 30, d |-> 5])>>),
       ProcContributor("cy", <<ProcBucket(4, [c |-> 2, a |-> 30, d |-> 5])>>)>>}

InitProcess ==
    /\ call \in [fn : {"processContributors"},
                 contributors : {<<ProcContributor("ann", ws)>> \o others :
                                    ws \in ProcWeekLists(1, MaxProcWeeks), others \in ProcOthers},
                 period : {"all", "week", "month"},
                 now : ProcNow]
    /\ BackgroundIdle
    /\ PopupClosed

CallProcessContributors ==
    /\ call.fn = "processContributors"
    /\ ~Returned
    /\ call' = [fn |-> call.fn, contributors |-> call.contributors, period |-> call.period,
                now |-> call.now,
                ret |-> processContributors(call.contributors, call.period, call.now)]
    /\ UNCHANGED bgVars
    /\ UNCHANGED popupVars

NextProcess == CallProcessContributors

SpecProcess == InitProcess /\ [][NextProcess]_vars

\* whether a bucket with week start w is inside the window: w >= 0 for all
\* time, and otherwise w >= now - days, now being now.s + now.ms/1000 seconds
InWindow(w, period, now) ==
    LET days == IF period = "week" THEN 7 ELSE 28
        age == now.s - w
    IN  IF period = "all" THEN w >= 0
        ELSE age < days * SecondsPerDay \/ (age = days * SecondsPerDay /\ now.ms = 0)

\* the sum of one counter over the buckets inside the window
RECURSIVE WindowTotal(_, _, _, _)
WindowTotal(weeks, field, period, now) ==
    IF weeks = <<>> THEN 0
    ELSE LET last == weeks[Len(weeks)]
         IN  WindowTotal(SubSeq(weeks, 1, Len(weeks) - 1), field, period, now)
               + (IF InWindow(last.w, period, now) THEN last[field] ELSE 0)

\* C8: every listed contributor's commits, additions and deletions are the
\* sums over its buckets with weekStart >= cutoff, the cutoff being 0,
\* now - 7 days and now - 28 days for all, week and month.
TotalsAreWindowSums ==
    (call.fn = "processContributors" /\ Returned) =>
        \A e \in Range(call.ret) :
            \E c \in Range(call.contributors) :
                /\ c.login = e.login
                /\ e.commits = WindowTotal(c.weeks, "c", call.period, call.now)
                /\ e.additions = WindowTotal(c.weeks, "a", call.period, call.now)
                /\ e.deletions = WindowTotal(c.weeks, "d", call.period, call.now)

\* buckets at 0, now - 10 days and now - 1 day under 'week': only the last counts
PeriodWitness ==
    /\ call.fn = "processContributors" /\ Returned
    /\ call.period = "week"
    /\ \E i \in 1..Len(call.contributors) :
          /\ {b.w : b \in Range(call.contributors[i].weeks)}
                = {0, ProcNowSeconds - 10 * SecondsPerDay, ProcNowSeconds - SecondsPerDay}
          /\ \A b \in Range(call.contributors[i].weeks) : b.c = 2
          /\ \E e \in Range(call.ret) :
                e.login = call.contributors[i].login /\ e.commits = 2 /\ e.additions = 30

\* C9: the returned list holds a contributor if and only if one of its
\* totals in the window is not zero; each such contributor is listed once.
OnlyActiveContributorsListed ==
    (call.fn = "processContributors" /\ Returned) =>
        LET activeLogins ==
              {c.login : c \in {x \in Range(call.contributors) :
                  \/ WindowTotal(x.weeks, "c", call.period, call.now) # 0
                  \/ WindowTotal(x.weeks, "a", call.period, call.now) # 0
                  \/ WindowTotal(x.weeks, "d", call.period, call.now) # 0}}
        IN  /\ {e.login : e \in Range(call.ret)} = activeLogins
            /\ Len(call.ret) = Cardinality(activeLogins)
            /\ \A e \in Range(call.ret) : e.rank \in 1..Len(call.ret)

\* one contributor with activity only outside the window is dropped, one
\* with additions but no commits in the window is listed
InactiveWitness ==
    /\ call.fn = "processContributors" /\ Returned
    /\ call.period = "week"
    /\ Len(call.contributors) = 2
    /\ call.contributors[1].weeks # <<>>
    /\ Len(call.ret) = 1
    /\ call.ret[1].login = "bob"
    /\ call.ret[1].commits = 0 /\ call.ret[1].additions = 4

----------------------------------------------------------------------------
(* StatsMerger: background.js:209-247 *)

\* String.prototype.toLowerCase on the logins of the model
toLowerCase(login) ==
    CASE login \in {"Ann", "ANN"} -> "ann"
      [] login = "Bob" -> "bob"
      [] login \in {"Cy", "CY"} -> "cy"
      [] OTHER -> login

\* obj[field] || fallback
OrElse(obj, field, fallback) == IF field \in DOMAIN obj THEN obj[field] ELSE fallback

\* obj[field] || 0: 0 stays 0
OrZero(obj, field) == IF field \in DOMAIN obj THEN obj[field] ELSE 0

\* contributorMap is a Map: a sequence of [key, value] in insertion order
MapHas(map, key) == \E i \in 1..Len(map) : map[i].key = key

MapSetAppending(map, key, value) == Append(map, [key |-> key, value |-> value])

\* Map.prototype.set: a key already present keeps its place and gets the new value
MapSet(map, key, value) ==
    IF MapHas(map, key)
    THEN [i \in 1..Len(map) |-> IF map[i].key = key THEN [key |-> key, value |-> value]
                                 ELSE map[i]]
    ELSE Append(map, [key |-> key, value |-> value])

\* stat.author?.login, "" when there is none
StatLogin(stat) ==
    IF "author" \in DOMAIN stat /\ "login" \in DOMAIN stat.author THEN stat.author.login
    ELSE ""

\* background.js:213-223, one stat of statsData
AddStat(map, stat) ==
    IF StatLogin(stat) = "" THEN map
    ELSE MapSet(map, toLowerCase(StatLogin(stat)),
                [login |-> StatLogin(stat),
                 avatar |-> OrElse(stat.author, "avatar_url", ""),
                 profileUrl |-> OrElse(stat.author, "html_url", ""),
                 weeks |-> OrElse(stat, "weeks", <<>>)])

\* the record of a contributor known from the contributors list only
ListRecord(c) ==
    [login |-> c.login,
     avatar |-> OrElse(c, "avatar_url", ""),
     profileUrl |-> OrElse(c, "html_url", ""),
     weeks |-> <<>>,
     totalCommits |-> OrZero(c, "contributions")]

\* background.js:228-240, one entry of listData
AddListEntryOverwriting(map, c) ==
    IF OrElse(c, "login", "") = "" THEN map
    ELSE MapSet(map, toLowerCase(c.login), ListRecord(c))

AddListEntry(map, c) ==
    IF OrElse(c, "login", "") = "" THEN map
    ELSE IF ~MapHas(map, toLowerCase(c.login))
         THEN MapSet(map, toLowerCase(c.login), ListRecord(c))
         ELSE map

RECURSIVE AddStats(_, _)
AddStats(map, statsData) ==
    IF statsData = <<>> THEN map
    ELSE AddStats(AddStat(map, Head(statsData)), Tail(statsData))

RECURSIVE AddList(_, _)
AddList(map, listData) ==
    IF listData = <<>> THEN map
    ELSE AddList(AddListEntry(map, Head(listData)), Tail(listData))

\* a parsed body that is an array, as a sequence; anything else counts as no entries
\* (Array.isArray at background.js:212 and 227)
ArrayOf(body) == IF body.isArray THEN body.items ELSE <<>>

\* background.js:207 listResponse?.ok ? await listResponse.json() : []
ListData(lr) ==
    IF lr.isNull THEN [isArray |-> TRUE, items |-> <<>>]
    ELSE IF lr.status \in 200..299 THEN lr.body
    ELSE [isArray |-> TRUE, items |-> <<>>]

\* background.js:210-241
ContributorMap(statsData, listData) ==
    AddList(AddStats(<<>>, ArrayOf(statsData)), ArrayOf(listData))

\* background.js:247 Array.from(contributorMap.values())
MapValues(map) == [i \in 1..Len(map) |-> map[i].value]

----------------------------------------------------------------------------
(* DiffBackfiller: the qualification, background.js:250-255 *)

\* weeks.reduce((sum, w) => sum + (w[field] || 0), 0)
RECURSIVE SumOrZero(_, _)
SumOrZero(weeks, field) ==
    IF weeks = <<>> THEN 0 ELSE OrZero(Head(weeks), field) + SumOrZero(Tail(weeks), field)

NeedsDiffStatsWeeksOnly(c) ==
    /\ SumOrZero(c.weeks, "c") > 0
    /\ SumOrZero(c.weeks, "a") = 0
    /\ SumOrZero(c.weeks, "d") = 0

NeedsDiffStats(c) ==
    LET weekCommits == SumOrZero(c.weeks, "c")
        totalCommits == IF weekCommits # 0 THEN weekCommits ELSE OrZero(c, "totalCommits")
        totalAdd == SumOrZero(c.weeks, "a")
        totalDel == SumOrZero(c.weeks, "d")
    IN  totalCommits > 0 /\ totalAdd = 0 /\ totalDel = 0

\* the indices of the contributors that contributors.filter keeps, in order
NeedsDiffStatsIndices(contribs) ==
    SelectSeq([i \in 1..Len(contribs) |-> i], LAMBDA i : NeedsDiffStats(contribs[i]))

----------------------------------------------------------------------------
(* DiffBackfiller: fillDiffStats, background.js:275-333 *)

\* background.js:290 commits.slice(0, 10)
DetailCap == 10

SampledWhole(commits) == commits

\* background.js:290 the commits whose detail is fetched
Sampled(commits) == SubSeq(commits, 1, Min(DetailCap, Len(commits)))

\* the week map is a Map from week start to {w, a, d, c}, in insertion order
WeekMapHas(weekMap, weekStart) == \E i \in 1..Len(weekMap) : weekMap[i].w = weekStart

\* background.js:303 !detail?.stats || !detail?.commit?.author?.date
DetailUsable(slot) ==
    /\ ~slot.isNull
    /\ "stats" \in DOMAIN slot.json
    /\ "date" \in DOMAIN slot.json

\* background.js:305-312, one usable detail
Accumulate(weekMap, detail) ==
    LET weekStart == getWeekStartTimestamp(detail.date)
        started == IF WeekMapHas(weekMap, weekStart) THEN weekMap
                   ELSE Append(weekMap, [w |-> weekStart, a |-> 0, d |-> 0, c |-> 0])
    IN  [i \in 1..Len(started) |->
            IF started[i].w = weekStart
            THEN [w |-> weekStart,
                  a |-> started[i].a + OrZero(detail.stats, "additions"),
                  d |-> started[i].d + OrZero(detail.stats, "deletions"),
                  c |-> started[i].c + 1]
            ELSE started[i]]

\* background.js:301-313
RECURSIVE BuildWeekMapFrom(_, _)
BuildWeekMapFrom(weekMap, details) ==
    IF details = <<>> THEN weekMap
    ELSE BuildWeekMapFrom(
            IF DetailUsable(Head(details)) THEN Accumulate(weekMap, Head(details).json)
            ELSE weekMap,
            Tail(details))

BuildWeekMapLastOnly(details) ==
    IF details = <<>> THEN <<>>
    ELSE BuildWeekMapFrom(<<>>, <<details[Len(details)]>>)

BuildWeekMap(details) == BuildWeekMapFrom(<<>>, details)

\* background.js:321 contributor.weeks.find(w => w.w === weekStart): the first match
FindWeek(weeks, weekStart) ==
    IF \E i \in 1..Len(weeks) : weeks[i].w = weekStart
    THEN CHOOSE i \in 1..Len(weeks) :
            weeks[i].w = weekStart /\ \A j \in 1..(i - 1) : weeks[j].w # weekStart
    ELSE 0

\* background.js:320-328, one entry of weekMap
MergeWeekWithCommits(weeks, commitWeek) ==
    LET existing == FindWeek(weeks, commitWeek.w)
    IN  IF existing # 0
        THEN [weeks EXCEPT ![existing] = commitWeek]
        ELSE Append(weeks, commitWeek)

MergeWeek(weeks, commitWeek) ==
    LET existing == FindWeek(weeks, commitWeek.w)
    IN  IF existing # 0
        THEN [weeks EXCEPT ![existing] =
                 [w |-> weeks[existing].w, a |-> commitWeek.a, d |-> commitWeek.d,
                  c |-> weeks[existing].c]]
        ELSE Append(weeks, commitWeek)

RECURSIVE MergeWeeks(_, _)
MergeWeeks(weeks, weekMap) ==
    IF weekMap = <<>> THEN weeks
    ELSE MergeWeeks(MergeWeek(weeks, Head(weekMap)), Tail(weekMap))

\* background.js:315-329
FilledWeeks(weeks, weekMap) ==
    IF Len(weeks) = 0 THEN weekMap ELSE MergeWeeks(weeks, weekMap)

----------------------------------------------------------------------------
(* What the hosting API answers *)

\* week keys of the model: the Sundays 1970-01-11, 1970-01-18 and 1970-01-25
Week1 == FirstSunday + 7 * SecondsPerDay
Week2 == FirstSunday + 14 * SecondsPerDay
Week3 == FirstSunday + 21 * SecondsPerDay

\* commits but no line counts, the case fillDiffStats is for
WeeksZeroDiff ==
    << [w |-> Week1, a |-> 0, d |-> 0, c |-> 0], [w |-> Week2, a |-> 0, d |-> 0, c |-> 2] >>

WeeksWithDiff == << [w |-> Week1, a |-> 7, d |-> 1, c |-> 1] >>

Stat(login, weeks) ==
    [author |-> [login |-> login, avatar_url |-> "avatarA", html_url |-> "profileA"],
     weeks |-> weeks]

\* entries of /stats/contributors: three spellings of two logins, with and
\* without line counts; an author that is null; an author without login,
\* avatar and profile; an entry without weeks
StatEntries ==
    {Stat(l, w) : l \in {"Ann", "ANN", "Bob"}, w \in {WeeksZeroDiff, WeeksWithDiff}}
      \cup {[weeks |-> WeeksZeroDiff],
            [author |-> [login |-> ""], weeks |-> WeeksWithDiff],
            [author |-> [login |-> "Bob"]]}

ListEntry(login, contributions) ==
    [login |-> login, avatar_url |-> "avatarB", html_url |-> "profileB",
     contributions |-> contributions]

\* entries of /contributors
ListEntries ==
    {ListEntry("ann", 3), ListEntry("Cy", 2), ListEntry("CY", 0),
     [login |-> "Bob"],
     [avatar_url |-> "avatarB", html_url |-> "profileB", contributions |-> 5]}

MaxStats == 2
MaxList == 2

Array(items) == [isArray |-> TRUE, items |-> items]
NotArray == [isArray |-> FALSE]

\* a response without a body that parses: Response.json() rejects
NoJson == [isArray |-> FALSE, unparsable |-> TRUE]

\* await response.json() throws
JsonRejects(response) == "body" \in DOMAIN response /\ "unparsable" \in DOMAIN response.body

\* the fetch of background.js:181: rejected, or a response with a status
\* (and, for 403, the x-ratelimit-remaining header; for 200, the parsed body)
StatsFailures ==
    {[rejected |-> TRUE]}
      \cup {[rejected |-> FALSE, status |-> st] : st \in {202, 401, 404, 500}}
      \cup {[rejected |-> FALSE, status |-> 403, remaining |-> r] : r \in {"0", "59"}}
      \cup {[rejected |-> FALSE, status |-> 200, body |-> NotArray]}
      \cup {[rejected |-> FALSE, status |-> 204, body |-> NoJson]}

StatsOk(items) == [rejected |-> FALSE, status |-> 200, body |-> Array(items)]

\* the fetch of background.js:182: null after a rejection, or a response
ListFailures ==
    {[isNull |-> TRUE],
     [isNull |-> FALSE, status |-> 500],
     [isNull |-> FALSE, status |-> 200, body |-> NotArray],
     [isNull |-> FALSE, status |-> 200, body |-> NoJson]}

ListOk(items) == [isNull |-> FALSE, status |-> 200, body |-> Array(items)]

StatsResponses == StatsFailures \cup {StatsOk(q) : q \in SeqsUpTo(StatEntries, MaxStats)}
ListResponses == ListFailures \cup {ListOk(q) : q \in SeqsUpTo(ListEntries, MaxList)}

\* the answers of the runs that go on into the backfill: at most two
\* contributors, with and without weeks, one or two of which qualify
RunStatsResponses ==
    StatsFailures
      \cup {StatsOk(<<>>), StatsOk(<<Stat("Ann", WeeksZeroDiff)>>),
            StatsOk(<<Stat("Bob", WeeksWithDiff)>>),
            StatsOk(<<Stat("Ann", WeeksZeroDiff), Stat("Bob", WeeksWithDiff)>>)}

RunListResponses ==
    ListFailures
      \cup {ListOk(<<>>), ListOk(<<ListEntry("ann", 3)>>), ListOk(<<ListEntry("Cy", 2)>>)}

\* the commits of an author, newest first, by sha.  Log 1: three commits of
\* week 3 (a Wednesday noon, the Sunday at 00:00:00.000, the Saturday at
\* 23:59:59.999).  Log 2: a commit of week 1, a commit without stats, a commit
\* of week 3.  Log 3: one commit without an authored date.
MaxCommits == 3

CommitLog(n) ==
    CASE n = 1 -> <<11, 12, 13, 14, 15>>
      [] n = 2 -> <<21, 22, 23, 24, 25>>
      [] OTHER -> <<31>>

\* GET /commits/{sha}; detail.commit.author.date is the field date
CommitDetail(sha) ==
    CASE sha = 11 -> [stats |-> [additions |-> 5, deletions |-> 2],
                      date |-> [s |-> Week3 + 3 * SecondsPerDay + 43200, ms |-> 0]]
      [] sha = 12 -> [stats |-> [additions |-> 0, deletions |-> 3],
                      date |-> [s |-> Week3, ms |-> 0]]
      [] sha = 13 -> [stats |-> [additions |-> 10, deletions |-> 0],
                      date |-> [s |-> Week3 + 7 * SecondsPerDay - 1, ms |-> 999]]
      [] sha = 21 -> [stats |-> [additions |-> 3, deletions |-> 1],
                      date |-> [s |-> Week1 + SecondsPerDay, ms |-> 250]]
      [] sha = 22 -> [date |-> [s |-> Week3 + SecondsPerDay, ms |-> 0]]
      [] sha = 23 -> [stats |-> [additions |-> 1, deletions |-> 1],
                      date |-> [s |-> Week3 + 2 * SecondsPerDay, ms |-> 0]]
      [] sha = 31 -> [stats |-> [additions |-> 9, deletions |-> 9]]
      [] sha = 41 -> [stats |-> [additions |-> 6, deletions |-> 4],
                      date |-> [s |-> Week2 + 2 * SecondsPerDay, ms |-> 0]]
      [] OTHER -> [stats |-> [deletions |-> 4],
                   date |-> [s |-> Week2 + 5 * SecondsPerDay, ms |-> 1]]

\* the fetch of background.js:278: rejected, not OK, a body that is no array,
\* an empty array, or the first commits of a log
CommitsResponses ==
    {[kind |-> "rejected"], [kind |-> "notOk"], [kind |-> "notArray"],
     [kind |-> "array", commits |-> <<>>]}
      \cup UNION {{[kind |-> "array", commits |-> SubSeq(CommitLog(n), 1, k)] :
                      k \in 1..Min(MaxCommits, Len(CommitLog(n)))} : n \in 1..3}

----------------------------------------------------------------------------
(* fetchContributorStats and fillDiffStats as steps between awaits *)

Init ==
    /\ token \in {"", "ghp_token"}
    /\ call = [fn |-> "none"]
    /\ bgPc = "start"
    /\ statsResponse = [rejected |-> FALSE, status |-> 0]
    /\ listResponse = [isNull |-> TRUE]
    /\ contributors = <<>>
    /\ jobs = <<>>
    /\ result = [status |-> "none"]
    /\ PopupClosed

\* background.js:168-183: without a token the call ends; with one the two
\* fetches go out
Start ==
    /\ bgPc = "start"
    /\ IF token = ""
       THEN bgPc' = "done" /\ result' = [status |-> "no_token"]
       ELSE bgPc' = "fetching" /\ UNCHANGED result
    /\ UNCHANGED <<token, call, statsResponse, listResponse, contributors, jobs>>
    /\ UNCHANGED popupVars

\* background.js:186-204: the status the stats response ends the call with,
\* "" when it goes on; a rejected fetch ends in the catch of line 266
StatsError(sr) ==
    IF sr.rejected THEN "error"
    ELSE CASE sr.status = 202 -> "computing"
           [] sr.status = 401 -> "invalid_token"
           [] sr.status = 403 -> IF sr.remaining = "0" THEN "rate_limited" ELSE "forbidden"
           [] sr.status = 404 -> "not_found"
           [] sr.status \notin 200..299 -> "error"
           [] OTHER -> ""

\* background.js:206-207 inside the try of line 178: a json() that rejects
\* ends the call in the catch of line 266; the list body is read only from
\* a response that is OK
JsonThrows(sr, lr) ==
    \/ JsonRejects(sr)
    \/ ~lr.isNull /\ lr.status \in 200..299 /\ JsonRejects(lr)

\* a fillDiffStats call up to its first await (background.js:276-281)
NewJob(target) ==
    [target |-> target, pc |-> "commits", response |-> "pending", commits |-> <<>>,
     details |-> <<>>, rejected |-> FALSE,
     fetched |-> << [url |-> "commits", per_page |-> 30] >>]

\* background.js:186-264, from the two responses to the first await of the
\* backfill (or to the return when nobody needs a backfill)
SourcesArrived(statsAnswers, listAnswers) ==
    /\ bgPc = "fetching"
    /\ \E sr \in statsAnswers, lr \in listAnswers :
          /\ statsResponse' = sr
          /\ listResponse' = lr
          /\ IF StatsError(sr) # ""
             THEN /\ result' = [status |-> StatsError(sr)]
                  /\ bgPc' = "done"
                  /\ UNCHANGED <<contributors, jobs>>
             ELSE IF JsonThrows(sr, lr)
             THEN /\ result' = [status |-> "error"]
                  /\ bgPc' = "done"
                  /\ UNCHANGED <<contributors, jobs>>
             ELSE LET contributorMap == ContributorMap(sr.body, ListData(lr))
                      values == MapValues(contributorMap)
                      needsDiffStats == NeedsDiffStatsIndices(values)
                  IN  IF Len(contributorMap) = 0
                      THEN /\ result' = [status |-> "empty"]
                           /\ bgPc' = "done"
                           /\ UNCHANGED <<contributors, jobs>>
                      ELSE /\ contributors' = values
                           /\ jobs' = [k \in 1..Len(needsDiffStats) |-> NewJob(needsDiffStats[k])]
                           /\ IF Len(needsDiffStats) > 0
                              THEN bgPc' = "backfilling" /\ UNCHANGED result
                              ELSE /\ bgPc' = "done"
                                   /\ result' = [status |-> "success", data |-> values]
    /\ UNCHANGED <<token, call>>
    /\ UNCHANGED popupVars

\* background.js:330-332: the catch swallows the error and the call resolves
FillDiffStatsRethrow(job) == [job EXCEPT !.pc = "done", !.rejected = TRUE]

FillDiffStatsCatch(job) == [job EXCEPT !.pc = "done"]

\* background.js:283-298: the answer to the commit-list fetch, one of answers;
\* fetched is the list of the requests the job has sent
CommitsArrivedFrom(j, answers) ==
    /\ bgPc = "backfilling"
    /\ j \in 1..Len(jobs)
    /\ jobs[j].pc = "commits"
    /\ \E resp \in answers :
          LET job == [jobs[j] EXCEPT !.response = resp.kind]
          IN  jobs' = [jobs EXCEPT ![j] =
                IF resp.kind = "rejected" THEN FillDiffStatsCatch(job)
                ELSE IF resp.kind # "array" \/ Len(resp.commits) = 0
                     THEN [job EXCEPT !.pc = "done"]
                     ELSE [job EXCEPT !.pc = "details", !.commits = resp.commits,
                                      !.details = [k \in 1..Len(Sampled(resp.commits))
                                                      |-> [settled |-> FALSE]],
                                      !.fetched = @ \o [k \in 1..Len(Sampled(resp.commits))
                                                      |-> [url |-> "commit",
                                                           sha |-> Sampled(resp.commits)[k]]]]]
    /\ UNCHANGED <<token, call, bgPc, statsResponse, listResponse, contributors, result>>
    /\ UNCHANGED popupVars

CommitsArrived(j) == CommitsArrivedFrom(j, CommitsResponses)

\* background.js:291-296: the answer to one commit-detail fetch; a rejected
\* fetch and a response that is not OK both leave null
DetailArrivedAs(j, k, outcomes) ==
    /\ bgPc = "backfilling"
    /\ j \in 1..Len(jobs)
    /\ jobs[j].pc = "details"
    /\ k \in 1..Len(jobs[j].details)
    /\ ~jobs[j].details[k].settled
    /\ \E outcome \in outcomes :
          jobs' = [jobs EXCEPT ![j].details[k] =
                     IF outcome = "ok"
                     THEN [settled |-> TRUE, isNull |-> FALSE,
                           json |-> CommitDetail(jobs[j].commits[k])]
                     ELSE [settled |-> TRUE, isNull |-> TRUE]]
    /\ UNCHANGED <<token, call, bgPc, statsResponse, listResponse, contributors, result>>
    /\ UNCHANGED popupVars

DetailArrived(j, k) == DetailArrivedAs(j, k, {"rejected", "notOk", "ok"})

\* background.js:300-329: after the Promise.all of the details
DetailsSettled(j) ==
    /\ bgPc = "backfilling"
    /\ j \in 1..Len(jobs)
    /\ jobs[j].pc = "details"
    /\ \A k \in 1..Len(jobs[j].details) : jobs[j].details[k].settled
    /\ contributors' =
          [contributors EXCEPT ![jobs[j].target].weeks =
              FilledWeeks(@, BuildWeekMap(jobs[j].details))]
    /\ jobs' = [jobs EXCEPT ![j].pc = "done"]
    /\ UNCHANGED <<token, call, bgPc, statsResponse, listResponse, result>>
    /\ UNCHANGED popupVars

BackfillDoneAfterAnyJob ==
    /\ bgPc = "backfilling"
    /\ \E j \in 1..Len(jobs) : jobs[j].pc = "done"
    /\ bgPc' = "done"
    /\ result' = [status |-> "success", data |-> contributors]
    /\ UNCHANGED <<token, call, statsResponse, listResponse, contributors, jobs>>
    /\ UNCHANGED popupVars

\* background.js:259-268: after the Promise.all of the jobs; a job that
\* rejected would end the call in the catch
BackfillDone ==
    /\ bgPc = "backfilling"
    /\ \A j \in 1..Len(jobs) : jobs[j].pc = "done"
    /\ bgPc' = "done"
    /\ result' = IF \E j \in 1..Len(jobs) : jobs[j].rejected
                 THEN [status |-> "error"]
                 ELSE [status |-> "success", data |-> contributors]
    /\ UNCHANGED <<token, call, statsResponse, listResponse, contributors, jobs>>
    /\ UNCHANGED popupVars

Next ==
    \/ Start
    \/ SourcesArrived(RunStatsResponses, RunListResponses)
    \/ \E j \in 1..Len(jobs) : CommitsArrived(j)
    \/ \E j \in 1..Len(jobs) : \E k \in 1..Len(jobs[j].details) : DetailArrived(j, k)
    \/ \E j \in 1..Len(jobs) : DetailsSettled(j)
    \/ BackfillDone

Spec == Init /\ [][Next]_vars

\* the merge and the qualification alone, over every pair of answers
NextMerge ==
    \/ Start
    \/ SourcesArrived(StatsResponses, ListResponses)

SpecMerge == Init /\ [][NextMerge]_vars

----------------------------------------------------------------------------
(* Claims about the merge and the qualification (SpecMerge) *)

\* the call went past the merge with at least one contributor
Merged == bgPc \in {"backfilling", "done"} /\ result.status \in {"none", "success"}

\* list A and list B as the merge reads them: the entries that have a login
EntriesA == {e \in Range(ArrayOf(statsResponse.body)) : StatLogin(e) # ""}
EntriesB == {e \in Range(ArrayOf(ListData(listResponse))) : OrElse(e, "login", "") # ""}

KeysA == {toLowerCase(StatLogin(e)) : e \in EntriesA}
KeysB == {toLowerCase(e.login) : e \in EntriesB}

\* C1: a login only in A keeps A's weeks; a login only in B gets no weeks and
\* B's contributions as totalCommits; a login in both carries A's login,
\* avatar, profile and weeks and no totalCommits.
MergePrecedence ==
    Merged =>
        /\ {toLowerCase(r.login) : r \in Range(contributors)} = KeysA \cup KeysB
        /\ \A r \in Range(contributors) :
              IF toLowerCase(r.login) \in KeysA
              THEN /\ \E e \in EntriesA :
                        /\ r.login = e.author.login
                        /\ r.avatar = OrElse(e.author, "avatar_url", "")
                        /\ r.profileUrl = OrElse(e.author, "html_url", "")
                        /\ r.weeks = OrElse(e, "weeks", <<>>)
                   /\ "totalCommits" \notin DOMAIN r
              ELSE /\ r.weeks = <<>>
                   /\ "totalCommits" \in DOMAIN r
                   /\ \E e \in EntriesB :
                        /\ r.login = e.login
                        /\ r.avatar = OrElse(e, "avatar_url", "")
                        /\ r.totalCommits = OrZero(e, "contributions")

\* Bob only in A, Cy only in B, Ann in A and (as ann) in B
MergeWitness ==
    /\ Merged
    /\ KeysA = {"ann", "bob"}
    /\ KeysB = {"ann", "cy"}
    /\ Len(contributors) = 3
    /\ \E r \in Range(contributors) : r.login = "Ann" /\ r.avatar = "avatarA"
    /\ \E r \in Range(contributors) : r.login = "Cy" /\ r.totalCommits = 2

\* the qualification in the claim's words
TotalCommitsOf(r) ==
    IF SumField(r.weeks, "c") = 0
    THEN (IF "totalCommits" \in DOMAIN r THEN r.totalCommits ELSE 0)
    ELSE SumField(r.weeks, "c")

Qualifies(r) ==
    /\ TotalCommitsOf(r) > 0
    /\ SumField(r.weeks, "a") = 0
    /\ SumField(r.weeks, "d") = 0

\* C5: a backfill job is started for a merged contributor if and only if it
\* qualifies, and then exactly one.
JobsAreForQualifyingContributors ==
    Merged =>
        /\ \A j \in 1..Len(jobs) : jobs[j].target \in 1..Len(contributors)
        /\ \A i \in 1..Len(contributors) :
              Cardinality({j \in 1..Len(jobs) : jobs[j].target = i})
                 = IF Qualifies(contributors[i]) THEN 1 ELSE 0

\* one job, for a contributor that qualifies by its fallback total, beside a
\* contributor with line counts and one with no commits at all
QualificationWitness ==
    /\ Merged
    /\ Len(jobs) = 1
    /\ contributors[jobs[1].target].weeks = <<>>
    /\ contributors[jobs[1].target].totalCommits = 3
    /\ \E r \in Range(contributors) : r.weeks = WeeksWithDiff
    /\ \E r \in Range(contributors) : r.weeks = <<>> /\ r.totalCommits = 0

----------------------------------------------------------------------------
(* Claims about the backfill (Spec) *)

\* the details that count: fetched, with a diff-stat and an authored date
CountedDetails(details) ==
    {k \in 1..Len(details) :
        /\ details[k].settled
        /\ ~details[k].isNull
        /\ "stats" \in DOMAIN details[k].json
        /\ "date" \in DOMAIN details[k].json}

WeekOfDetail(details, k) == getWeekStartTimestamp(details[k].json.date)

RecomputedWeeks(details) == {WeekOfDetail(details, k) : k \in CountedDetails(details)}

\* the sum of one diff-stat over a set of details
RECURSIVE StatSum(_, _, _)
StatSum(details, ks, field) ==
    IF ks = {} THEN 0
    ELSE LET k == CHOOSE x \in ks : TRUE
         IN  OrZero(details[k].json.stats, field) + StatSum(details, ks \ {k}, field)

\* the bucket the claim expects for one recomputed week
SampledBucket(details, week) ==
    LET ks == {k \in CountedDetails(details) : WeekOfDetail(details, k) = week}
    IN  [w |-> week, a |-> StatSum(details, ks, "additions"),
         d |-> StatSum(details, ks, "deletions"), c |-> Cardinality(ks)]

\* job j ends in this step
JobEnds(j) == jobs[j].pc # "done" /\ jobs'[j].pc = "done"

\* C3: a job for a contributor with weeks overwrites additions and deletions
\* of the buckets whose week was recomputed and keeps their commit counter,
\* leaves the other buckets as they are, and appends each new week once, in full.
BackfillMergesIntoExistingWeeks ==
    [][\A j \in 1..Len(jobs) :
          (jobs[j].pc = "details" /\ JobEnds(j) /\ contributors[jobs[j].target].weeks # <<>>) =>
             LET old == contributors[jobs[j].target].weeks
                 new == contributors'[jobs[j].target].weeks
                 details == jobs[j].details
                 fresh == RecomputedWeeks(details) \ {old[i].w : i \in 1..Len(old)}
             IN  /\ Len(new) = Len(old) + Cardinality(fresh)
                 /\ \A i \in 1..Len(old) :
                       IF old[i].w \in RecomputedWeeks(details)
                       THEN new[i] = [w |-> old[i].w,
                                      a |-> SampledBucket(details, old[i].w).a,
                                      d |-> SampledBucket(details, old[i].w).d,
                                      c |-> old[i].c]
                       ELSE new[i] = old[i]
                 /\ \A week \in fresh :
                       \E i \in (Len(old) + 1)..Len(new) :
                          /\ new[i] = SampledBucket(details, week)
                          /\ \A i2 \in (Len(old) + 1)..Len(new) : new[i2].w = week => i2 = i
    ]_vars

\* a finished job that overwrote week 1 (commit counter still 0), left week 2
\* alone and appended week 3
ExistingWeeksWitness ==
    \E j \in 1..Len(jobs) :
        /\ jobs[j].pc = "done"
        /\ jobs[j].commits = <<21, 22, 23>>
        /\ contributors[jobs[j].target].weeks
              = << [w |-> Week1, a |-> 3, d |-> 1, c |-> 0],
                   [w |-> Week2, a |-> 0, d |-> 0, c |-> 2],
                   [w |-> Week3, a |-> 1, d |-> 1, c |-> 1] >>

\* C4: a job for a contributor without weeks leaves exactly one bucket per
\* week of the counted details, with the sums of their additions and
\* deletions and their number; other details contribute nothing.
BackfillAccumulatesPerWeek ==
    [][\A j \in 1..Len(jobs) :
          (JobEnds(j) /\ contributors[jobs[j].target].weeks = <<>>) =>
             LET new == contributors'[jobs[j].target].weeks
                 details == jobs[j].details
             IN  /\ Len(new) = Cardinality(RecomputedWeeks(details))
                 /\ \A week \in RecomputedWeeks(details) :
                       \E i \in 1..Len(new) : new[i] = SampledBucket(details, week)
    ]_vars

\* the three details {5,2}, {0,3}, {10,0} of one week give a = 15, d = 5
AccumulationWitness ==
    \E j \in 1..Len(jobs) :
        /\ jobs[j].pc = "done"
        /\ jobs[j].commits = <<11, 12, 13>>
        /\ "totalCommits" \in DOMAIN contributors[jobs[j].target]
        /\ contributors[jobs[j].target].weeks = << [w |-> Week3, a |-> 15, d |-> 5, c |-> 3] >>

\* the contributors as the merge left them
MergedContributors == MapValues(ContributorMap(statsResponse.body, ListData(listResponse)))

\* the commit-list fetch of a job failed or gave nothing
Abandoned(job) ==
    job.pc = "done" /\ (job.response # "array" \/ job.commits = <<>>)

\* C6: a job whose commit-list fetch fails or gives nothing leaves its
\* contributor's weeks as they were; the call still ends with 'success'; and
\* every other contributor's weeks are what its own job makes of its own answers.
FailedBackfillIsIsolated ==
    /\ [][\A j \in 1..Len(jobs) :
            (jobs[j].pc = "commits" /\ JobEnds(j)) => contributors' = contributors]_vars
    /\ [](Merged =>
            /\ \A j \in 1..Len(jobs) :
                  /\ ~jobs[j].rejected
                  /\ Abandoned(jobs[j]) =>
                        contributors[jobs[j].target].weeks
                           = MergedContributors[jobs[j].target].weeks
                  /\ (jobs[j].pc = "done" /\ ~Abandoned(jobs[j])) =>
                        contributors[jobs[j].target].weeks
                           = FilledWeeks(MergedContributors[jobs[j].target].weeks,
                                         BuildWeekMap(jobs[j].details))
            /\ bgPc = "done" => result.status = "success")

\* the call ended with 'success' although one job's fetch was rejected and
\* another job filled in its contributor
IsolationWitness ==
    /\ bgPc = "done"
    /\ result.status = "success"
    /\ \E j \in 1..Len(jobs) :
          /\ jobs[j].response = "rejected"
          /\ contributors[jobs[j].target].weeks = WeeksZeroDiff
    /\ \E j \in 1..Len(jobs) :
          /\ jobs[j].response = "array"
          /\ contributors[jobs[j].target].weeks = << [w |-> Week3, a |-> 15, d |-> 5, c |-> 3] >>

----------------------------------------------------------------------------
(* Claims about the order and the ranks of the leaderboard (SpecProcess) *)

ProcessReturned == call.fn = "processContributors" /\ Returned

\* the position of a login in the list handed to processContributors
InputPosition(login) ==
    CHOOSE i \in 1..Len(call.contributors) : call.contributors[i].login = login

\* C11: the returned list is ordered by score descending, and entries with
\* the same score keep the relative order they had in the input list.
SortedByScoreStable ==
    ProcessReturned =>
        \A i \in 1..Len(call.ret) : \A j \in (i + 1)..Len(call.ret) :
            /\ call.ret[i].score >= call.ret[j].score
            /\ call.ret[i].score = call.ret[j].score =>
                  InputPosition(call.ret[i].login) < InputPosition(call.ret[j].login)

\* cy overtakes ann and bob, who have the same score and stay in input order
SortWitness ==
    /\ ProcessReturned
    /\ Len(call.ret) = 3
    /\ call.ret[1].login = "cy" /\ call.ret[2].login = "ann" /\ call.ret[3].login = "bob"
    /\ call.ret[1].score > call.ret[2].score
    /\ call.ret[2].score = call.ret[3].score

\* C12: the entry at position i (counted from 1) has rank i, so the ranks of
\* n entries are 1..n without duplicate or gap, also among equal scores.
RanksAreDense ==
    ProcessReturned =>
        /\ \A i \in 1..Len(call.ret) : call.ret[i].rank = i
        /\ {e.rank : e \in Range(call.ret)} = 1..Len(call.ret)

\* three entries of one score with ranks 1, 2, 3
RankWitness ==
    /\ ProcessReturned
    /\ Len(call.ret) = 3
    /\ \A e \in Range(call.ret) : e.score = call.ret[1].score
    /\ <<call.ret[1].rank, call.ret[2].rank, call.ret[3].rank>> = <<1, 2, 3>>

----------------------------------------------------------------------------
(* Claims about the identity key (SpecMerge) *)

\* no two records of the list have logins that are equal when lowercased
UniqueKeys(list) ==
    \A i \in 1..Len(list) : \A j \in 1..Len(list) :
        toLowerCase(list[i].login) = toLowerCase(list[j].login) => i = j

\* C13: in the merged list, and in every list returned with 'success', no two
\* records have logins that are equal when lowercased.
LowercasedLoginIsUnique ==
    /\ UniqueKeys(contributors)
    /\ result.status = "success" => UniqueKeys(result.data)

\* Ann and ANN in list A, ann and CY in list B: two records are returned
UniqueKeyWitness ==
    /\ result.status = "success"
    /\ {StatLogin(e) : e \in Range(ArrayOf(statsResponse.body))} = {"Ann", "ANN"}
    /\ {e.login : e \in EntriesB} = {"ann", "CY"}
    /\ {r.login : r \in Range(result.data)} = {"ANN", "CY"}
    /\ Len(result.data) = 2

----------------------------------------------------------------------------
(* Claims about sources that are absent or not lists (SpecMerge) *)

\* the stats response passed the status checks of background.js:186-204
StatsPassed ==
    /\ bgPc \in {"backfilling", "done"}
    /\ token # ""
    /\ StatsError(statsResponse) = ""

\* a source as a list: no entries when the payload is absent or not a list
\* (for the summary also when the fetch failed or was not OK), and without
\* the entries that have no login
EntriesWithLoginA ==
    SelectSeq(ArrayOf(statsResponse.body), LAMBDA e : StatLogin(e) # "")

EntriesWithLoginB ==
    IF listResponse.isNull \/ listResponse.status \notin 200..299 THEN <<>>
    ELSE SelectSeq(ArrayOf(listResponse.body), LAMBDA e : OrElse(e, "login", "") # "")

MergeOfListsWithLogin ==
    MapValues(ContributorMap(Array(EntriesWithLoginA), Array(EntriesWithLoginB)))

\* C14: a source whose payload is absent or not a list counts as an empty
\* list, entries without login are left out without touching the others, and
\* the call ends with 'success', or 'empty' when nothing remains, never 'error'.
MalformedSourcesDegradeToEmpty ==
    StatsPassed =>
        /\ result.status # "error"
        /\ IF MergeOfListsWithLogin = <<>>
           THEN result.status = "empty"
           ELSE /\ contributors = MergeOfListsWithLogin
                /\ result.status \in {"none", "success"}

\* the stats endpoint answered 204 without a body and the summary lists ann
NoContentEndsInError ==
    /\ StatsPassed
    /\ statsResponse.status = 204
    /\ MergeOfListsWithLogin # <<>>
    /\ result.status = "error"

----------------------------------------------------------------------------
(* The popup: popup.js:40-96 and 214-364 *)

MaxFetches == 3

\* Date.now() at the calls of processContributors: two days after week 3
\* began, and sixteen days after
PopupNow == {[s |-> Week3 + 2 * SecondsPerDay, ms |-> 0],
             [s |-> Week3 + 16 * SecondsPerDay, ms |-> 0]}

\* background.js:168-270 as the popup sees it: the value the fetchStats
\* message is answered with, for a backfill that changes nothing
WorkerResult(tok, sr, lr) ==
    IF tok = "" THEN [status |-> "no_token"]
    ELSE IF StatsError(sr) # "" THEN [status |-> StatsError(sr)]
    ELSE IF JsonThrows(sr, lr) THEN [status |-> "error"]
    ELSE LET values == MapValues(ContributorMap(sr.body, ListData(lr)))
         IN  IF values = <<>> THEN [status |-> "empty"]
             ELSE [status |-> "success", data |-> values]

\* popup.js:369-383 renderLeaderboard
renderLeaderboard(list) ==
    IF list = <<>> THEN [view |-> "noActivity"] ELSE [view |-> "board", entries |-> list]

\* popup.js:300-311 fetchAndDisplayStats up to its await, currentRepo being repo
fetchAndDisplayStats(repo) ==
    IF repo = "null"
    THEN UNCHANGED <<leaderboard, requests, fetchesStarted>>
    ELSE /\ leaderboard' = [view |-> "status"]
         /\ requests' = requests \cup {fetchesStarted + 1}
         /\ fetchesStarted' = fetchesStarted + 1

\* popup.js:214-236 showMainScreen, the tab being tab
showMainScreen(tab) ==
    /\ screen' = "main"
    /\ CASE tab = "elsewhere" ->
              /\ leaderboard' = [view |-> "error"]
              /\ UNCHANGED <<currentRepo, requests, fetchesStarted>>
         [] tab = "github" ->
              /\ currentRepo' = "null"
              /\ leaderboard' = [view |-> "error"]
              /\ UNCHANGED <<requests, fetchesStarted>>
         [] OTHER ->
              /\ currentRepo' = "owner/repo"
              /\ fetchAndDisplayStats("owner/repo")

Tabs == {"elsewhere", "github", "repository"}

\* popup.js:40-47 init: the worker has a token or not
PopupInit ==
    /\ screen = "init"
    /\ \E hasToken \in BOOLEAN :
          IF hasToken
          THEN \E tab \in Tabs : showMainScreen(tab)
          ELSE /\ screen' = "token"
               /\ UNCHANGED <<currentRepo, leaderboard, requests, fetchesStarted>>
    /\ call' = [fn |-> "init"]
    /\ UNCHANGED <<rawContributorData, currentPeriod, timers>>
    /\ UNCHANGED bgVars

\* popup.js:254-292 handleSaveToken with a token that verifies
HandleSaveToken ==
    /\ screen = "token"
    /\ fetchesStarted < MaxFetches
    /\ \E tab \in Tabs : showMainScreen(tab)
    /\ call' = [fn |-> "handleSaveToken"]
    /\ UNCHANGED <<rawContributorData, currentPeriod, timers>>
    /\ UNCHANGED bgVars

\* popup.js:486 a click on refreshBtn
RefreshClicked ==
    /\ screen # "init"
    /\ fetchesStarted < MaxFetches
    /\ fetchAndDisplayStats(currentRepo)
    /\ call' = [fn |-> "fetchAndDisplayStats", by |-> "click"]
    /\ UNCHANGED <<currentRepo, rawContributorData, currentPeriod, screen, timers>>
    /\ UNCHANGED bgVars

\* popup.js:333 the timer of a retry fires
TimerFires ==
    /\ timers > 0
    /\ fetchesStarted < MaxFetches
    /\ timers' = timers - 1
    /\ fetchAndDisplayStats(currentRepo)
    /\ call' = [fn |-> "fetchAndDisplayStats", by |-> "timer"]
    /\ UNCHANGED <<currentRepo, rawContributorData, currentPeriod, screen>>
    /\ UNCHANGED bgVars

\* sendMessage resolved with undefined
NoResponse == [isNull |-> TRUE]

SchedulesRetryOnError(r) == "status" \in DOMAIN r /\ r.status \in {"computing", "error"}

\* popup.js:331-334 case 'computing': setTimeout(fetchAndDisplayStats, 3000)
SchedulesRetry(r) == "status" \in DOMAIN r /\ r.status = "computing"

\* popup.js:317-364 handleResult, Date.now() being now
handleResult(r, now) ==
    /\ timers' = IF SchedulesRetry(r) THEN timers + 1 ELSE timers
    /\ IF "status" \notin DOMAIN r
       THEN /\ leaderboard' = [view |-> "error"]
            /\ UNCHANGED <<rawContributorData, screen>>
       ELSE CASE r.status = "success" ->
                   /\ rawContributorData' = [isNull |-> FALSE, data |-> r.data]
                   /\ leaderboard' =
                         renderLeaderboard(processContributors(r.data, currentPeriod, now))
                   /\ UNCHANGED screen
              [] r.status = "computing" ->
                   /\ leaderboard' = [view |-> "status"]
                   /\ UNCHANGED <<rawContributorData, screen>>
              [] r.status \in {"no_token", "invalid_token"} ->
                   /\ screen' = "token"
                   /\ UNCHANGED <<rawContributorData, leaderboard>>
              [] r.status = "empty" ->
                   /\ leaderboard' = [view |-> "noWarriors"]
                   /\ UNCHANGED <<rawContributorData, screen>>
              [] OTHER ->
                   /\ leaderboard' = [view |-> "error"]
                   /\ UNCHANGED <<rawContributorData, screen>>

\* the calls of fetchContributorStats the worker can have made for one
\* fetchStats message: the token, the stats response and the answer
WorkerCalls ==
    {[token |-> "", statsResponse |-> [rejected |-> FALSE, status |-> 0],
      result |-> WorkerResult("", [rejected |-> FALSE, status |-> 0], [isNull |-> TRUE])]}
      \cup {[token |-> "ghp_token", statsResponse |-> sr,
             result |-> WorkerResult("ghp_token", sr, lr)] :
               sr \in RunStatsResponses, lr \in RunListResponses}

\* popup.js:305-311: the worker answers one fetchStats message and
\* handleResult runs on the answer
FetchStatsResponded ==
    \E id \in requests, c \in WorkerCalls, now \in PopupNow :
        /\ requests' = requests \ {id}
        /\ token' = c.token
        /\ statsResponse' = c.statsResponse
        /\ result' = c.result
        /\ handleResult(c.result, now)
        /\ call' = IF c.result.status = "success"
                   THEN [fn |-> "handleResult", result |-> c.result, now |-> now]
                   ELSE [fn |-> "handleResult", result |-> c.result]
        /\ UNCHANGED <<currentRepo, currentPeriod, fetchesStarted>>
        /\ UNCHANGED <<bgPc, listResponse, contributors, jobs>>

\* popup.js:305-311: the message channel closes without an answer and
\* handleResult runs on undefined
FetchStatsUnanswered ==
    \E id \in requests, now \in PopupNow :
        /\ requests' = requests \ {id}
        /\ handleResult(NoResponse, now)
        /\ call' = [fn |-> "handleResult", result |-> NoResponse]
        /\ UNCHANGED <<currentRepo, currentPeriod, fetchesStarted>>
        /\ UNCHANGED bgVars

setTimePeriodRefetching(period, now) ==
    /\ currentPeriod' = period
    /\ fetchAndDisplayStats(currentRepo)
    /\ UNCHANGED <<currentRepo, rawContributorData, screen, timers>>

\* popup.js:83-96 setTimePeriod, Date.now() being now
setTimePeriod(period, now) ==
    /\ currentPeriod' = period
    /\ leaderboard' =
          IF rawContributorData.isNull THEN leaderboard
          ELSE renderLeaderboard(processContributors(rawContributorData.data, period, now))
    /\ UNCHANGED <<currentRepo, rawContributorData, screen, requests, timers, fetchesStarted>>

\* popup.js:50-54 a click on a time tab
TimeTabClicked ==
    /\ screen # "init"
    /\ \E period \in {"all", "week", "month"}, now \in PopupNow :
          /\ setTimePeriod(period, now)
          /\ call' = [fn |-> "setTimePeriod", period |-> period, now |-> now]
    /\ UNCHANGED bgVars

InitPopup ==
    /\ call = [fn |-> "none"]
    /\ BackgroundIdle
    /\ PopupClosed

NextPopup ==
    \/ PopupInit
    \/ HandleSaveToken
    \/ RefreshClicked
    \/ TimerFires
    \/ FetchStatsResponded
    \/ FetchStatsUnanswered
    \/ TimeTabClicked

SpecPopup == InitPopup /\ [][NextPopup]_vars

----------------------------------------------------------------------------
(* Claims about the popup (SpecPopup) *)

\* this step is a run of handleResult on the answer to a fetchStats message
HandleResultStep == requests' # requests /\ call'.fn = "handleResult"

\* C15: handleResult schedules exactly one delayed fetchAndDisplayStats for
\* a result with status 'computing' and none for any other result or for no
\* response, and sends no message itself; a 202 from the stats endpoint
\* gives the status 'computing' whatever the summary response was.
RetryOnlyOnComputing ==
    /\ [][HandleResultStep =>
            /\ timers' = timers + (IF "status" \in DOMAIN call'.result
                                      /\ call'.result.status = "computing"
                                   THEN 1 ELSE 0)
            /\ fetchesStarted' = fetchesStarted]_vars
    /\ []((token # "" /\ "rejected" \in DOMAIN statsResponse /\ ~statsResponse.rejected) =>
            (statsResponse.status = 202 <=> result.status = "computing"))

\* the answer to the first message was 'computing' after a 202: one timer
\* is pending and nothing else
RetryWitness ==
    /\ call.fn = "handleResult"
    /\ call.result.status = "computing"
    /\ statsResponse.status = 202
    /\ fetchesStarted = 1
    /\ requests = {}
    /\ timers = 1

\* C18: setTimePeriod sends no fetchStats message and leaves
\* rawContributorData as it is, and shows processContributors of that data
\* for the new period; rawContributorData changes only when handleResult
\* stores the data of a 'success' result.
PeriodChangeIsLocal ==
    [][/\ call'.fn = "setTimePeriod" =>
            /\ requests' = requests
            /\ fetchesStarted' = fetchesStarted
            /\ timers' = timers
            /\ rawContributorData' = rawContributorData
            /\ currentPeriod' = call'.period
            /\ ~rawContributorData.isNull =>
                  leaderboard' = renderLeaderboard(
                      processContributors(rawContributorData.data, call'.period, call'.now))
       /\ rawContributorData' # rawContributorData =>
            /\ HandleResultStep
            /\ call'.result.status = "success"
            /\ rawContributorData' = [isNull |-> FALSE, data |-> call'.result.data]
    ]_vars

\* after one fetch of two contributors the month tab shows the one that was
\* active in the last four weeks, and the fetched data are still both
PeriodChangeWitness ==
    /\ call.fn = "setTimePeriod"
    /\ call.period = "month"
    /\ currentPeriod = "month"
    /\ fetchesStarted = 1
    /\ requests = {}
    /\ ~rawContributorData.isNull
    /\ Len(rawContributorData.data) = 2
    /\ leaderboard.view = "board"
    /\ Len(leaderboard.entries) = 1
    /\ leaderboard.entries[1].login = "Ann"

\* C20: the fetchStats messages that await their response and the pending
\* retry timers are never more than one together.
AtMostOneFetchCycle == Cardinality(requests) + timers <= 1

\* a click on refresh while the first message is unanswered
TwoFetchesOutstanding ==
    /\ screen = "main"
    /\ call = [fn |-> "fetchAndDisplayStats", by |-> "click"]
    /\ requests = {1, 2}
    /\ timers = 0

----------------------------------------------------------------------------
(* One backfill job over commit lists longer than the sample (SpecFetches) *)

MaxLogLength == 12

\* a commit list of n commits, newest first, by sha
LongLog(n) == [k \in 1..n |-> 100 + k]

LongCommitsResponses ==
    {[kind |-> "rejected"], [kind |-> "notOk"], [kind |-> "notArray"]}
      \cup {[kind |-> "array", commits |-> LongLog(n)] : n \in 0..MaxLogLength}

NextFetches ==
    \/ Start
    \/ SourcesArrived({StatsOk(<<Stat("Ann", WeeksZeroDiff)>>)}, {[isNull |-> TRUE]})
    \/ \E j \in 1..Len(jobs) : CommitsArrivedFrom(j, LongCommitsResponses)
    \/ \E j \in 1..Len(jobs) : \E k \in 1..Len(jobs[j].details) : DetailArrivedAs(j, k, {"ok"})
    \/ \E j \in 1..Len(jobs) : DetailsSettled(j)
    \/ BackfillDone

SpecFetches == Init /\ [][NextFetches]_vars

\* C16: a job sends one commit-list fetch, asking for 30 commits, and then
\* the detail fetches of the first min(10, n) of the n commits returned, in
\* list order, and none after a commit-list fetch that failed.
BackfillRequestsAreBounded ==
    \A j \in 1..Len(jobs) :
        LET sent == jobs[j].fetched
            n == Len(jobs[j].commits)
        IN  /\ Len(sent) >= 1
            /\ sent[1] = [url |-> "commits", per_page |-> 30]
            /\ \A i \in 2..Len(sent) : sent[i].url = "commit"
            /\ Len(sent) - 1 <= 10
            /\ IF jobs[j].pc # "commits" /\ jobs[j].response = "array"
               THEN /\ Len(sent) - 1 = (IF n < 10 THEN n ELSE 10)
                    /\ \A i \in 1..(Len(sent) - 1) : sent[i + 1].sha = jobs[j].commits[i]
               ELSE Len(sent) = 1

\* twelve commits came back and the job ended after ten detail fetches
RequestBoundWitness ==
    \E j \in 1..Len(jobs) :
        /\ jobs[j].pc = "done"
        /\ Len(jobs[j].commits) = 12
        /\ Len(jobs[j].fetched) = 11
        /\ jobs[j].fetched[11].sha = jobs[j].commits[10]

----------------------------------------------------------------------------
(* Claims about concurrent backfill jobs (Spec) *)

\* the jobs run one after another, in the order they were started, each to
\* its end before the next begins
RECURSIVE RunInTurn(_, _)
RunInTurn(list, js) ==
    IF js = <<>> THEN list
    ELSE LET job == Head(js)
             after == IF Abandoned(job) THEN list
                      ELSE [list EXCEPT ![job.target].weeks =
                               FilledWeeks(@, BuildWeekMap(job.details))]
         IN  RunInTurn(after, Tail(js))

\* C17: a job changes nothing but the weeks of its own contributor, the
\* list returned is the one the jobs give when run one after another, and
\* 'success' is returned only when every job has finished.
BackfillJobsDoNotInterfere ==
    /\ [][\A i \in 1..Len(contributors) :
            contributors'[i] # contributors[i] =>
               \E j \in 1..Len(jobs) :
                  /\ jobs[j].target = i
                  /\ JobEnds(j)
                  /\ \A j2 \in 1..Len(jobs) : j2 # j => jobs'[j2] = jobs[j2]
                  /\ [contributors'[i] EXCEPT !.weeks = contributors[i].weeks]
                        = contributors[i]]_vars
    /\ []((bgPc = "done" /\ result.status = "success") =>
            /\ \A j \in 1..Len(jobs) : jobs[j].pc = "done"
            /\ result.data = contributors
            /\ result.data = RunInTurn(MergedContributors, jobs))

\* two jobs, for Ann and for Cy, both filled in weeks and the call returned
TwoJobsWitness ==
    /\ bgPc = "done"
    /\ result.status = "success"
    /\ Len(jobs) = 2
    /\ jobs[1].target # jobs[2].target
    /\ \A j \in 1..2 :
          /\ ~Abandoned(jobs[j])
          /\ result.data[jobs[j].target].weeks # MergedContributors[jobs[j].target].weeks

----------------------------------------------------------------------------
(* The pipeline followed by the leaderboard of its result (SpecBoard) *)

\* commits in week 1 and none in week 2, no line counts
WeeksLateZero ==
    << [w |-> Week1, a |-> 0, d |-> 0, c |-> 2], [w |-> Week2, a |-> 0, d |-> 0, c |-> 0] >>

BoardStatsResponses ==
    {StatsOk(<<Stat("Ann", WeeksLateZero)>>),
     StatsOk(<<Stat("Ann", WeeksZeroDiff), Stat("Bob", WeeksWithDiff)>>)}

BoardListResponses == {[isNull |-> TRUE], ListOk(<<ListEntry("Cy", 2)>>)}

\* commit lists: none, one commit authored in week 2, and the logs 1 and 2
BoardCommitsResponses ==
    {[kind |-> "rejected"], [kind |-> "array", commits |-> <<41>>],
     [kind |-> "array", commits |-> <<11, 12, 13>>],
     [kind |-> "array", commits |-> <<21, 22, 23>>]}

\* popup.js:326-328 and 92-94: processContributors on the data of a
\* 'success' result, for the period shown, Date.now() being now
ResultProcessed ==
    /\ bgPc = "done"
    /\ result.status = "success"
    /\ call.fn = "none"
    /\ \E period \in {"all", "week", "month"}, now \in PopupNow :
          call' = [fn |-> "processContributors", contributors |-> result.data,
                   period |-> period, now |-> now,
                   ret |-> processContributors(result.data, period, now)]
    /\ UNCHANGED bgVars
    /\ UNCHANGED popupVars

NextBoard ==
    \/ Start
    \/ SourcesArrived(BoardStatsResponses, BoardListResponses)
    \/ \E j \in 1..Len(jobs) : CommitsArrivedFrom(j, BoardCommitsResponses)
    \/ \E j \in 1..Len(jobs) : \E k \in 1..Len(jobs[j].details) : DetailArrived(j, k)
    \/ \E j \in 1..Len(jobs) : DetailsSettled(j)
    \/ BackfillDone
    \/ ResultProcessed

SpecBoard == Init /\ [][NextBoard]_vars

\* C19: every entry of a leaderboard made from a list the pipeline returned
\* has at least one commit and a title other than 'Inactive'.
LeaderboardEntriesHaveCommits ==
    ProcessReturned =>
        \A e \in Range(call.ret) : e.commits >= 1 /\ e.title # "Inactive"

\* Ann has two commits in week 1 and none in week 2; the backfill put the
\* lines of a commit authored in week 2 into the bucket of week 2; in the
\* last four weeks she has no commit and ten changed lines, and is listed
InactiveEntryListed ==
    /\ ProcessReturned
    /\ call.period = "month"
    /\ call.contributors[1].weeks
          = << [w |-> Week1, a |-> 0, d |-> 0, c |-> 2], [w |-> Week2, a |-> 6, d |-> 4, c |-> 0] >>
    /\ \E e \in Range(call.ret) :
          /\ e.login = "Ann"
          /\ e.commits = 0 /\ e.additions = 6 /\ e.deletions = 4
          /\ e.title = "Inactive"

====
